---- MODULE Spec2Model ----
(***************************************************************************)
(* A model of the document-to-audio core:                                  *)
(*   - chunk_text (src/src/doc_reader.py), the sentence packing function,  *)
(*     checked under SpecChunk;                                            *)
(*   - VoiceManager (src/src/voice_manager.py), the voice registry, used   *)
(*     sequentially through one handle under SpecVoice, by concurrent      *)
(*     add_voice threads under SpecConc, and by writers next to a reader   *)
(*     and a holder of the lock file under SpecLock;                       *)
(*   - text2audio (src/src/doc_reader.py), the synthesis loop, checked     *)
(*     under SpecSynth;                                                    *)
(*   - clean_text (src/src/document_parser.py), checked under SpecClean;   *)
(*   - clean_text_with_llm (src/src/doc_reader.py), checked under SpecLlm. *)
(* Python strings are sequences of one-character strings, so that strip,   *)
(* split, join and replace are computed the way Python computes them.      *)
(***************************************************************************)
EXTENDS Integers, Sequences, FiniteSets, TLC

VARIABLES
    \* ---- chunk_text ----
    sentences,      \* what nltk.sent_tokenize(text) returned
    max_length,     \* the max_length argument
    cpc,            \* "start" before the call, "done" after it
    raised,         \* whether the call ended in an exception
    chunks,         \* the returned list
    \* ---- the voice registry: the disk ----
    indexFile,      \* voices.json: [kind, data]
    dirs,           \* the directories that exist under voices_dir
    files,          \* the files that exist in them: <<directory, file name>>
    \* ---- the voice registry: VoiceManager objects ----
    metadata,       \* self.metadata of each handle
    lastCall,       \* the last call made through a handle and its result
    \* ---- the voice registry: concurrent callers ----
    pc,             \* where each add_voice thread is
    ret,            \* what its add_voice returned (read when pc is "done")
    iter,           \* its dict iterator inside json.dump: [used, pos]
    buf,            \* the dict its json.dump has written to the file buffer
    rpc,            \* where the thread calling _load_metadata is
    readerSaw,      \* the kind of index file content it read
    lockHeld,       \* another party holds voices.json.lock
    \* ---- text2audio ----
    tts,            \* the synthesizer in use
    progress_callback,  \* whether the caller passed a progress callback
    lines,          \* what chunk_text(text) returns: per segment, the
                    \* length in ms of the speech of that segment
    tpc,            \* where text2audio is
    line_i,         \* how many iterations of the loop are complete
    calls,          \* the segments tts.generate was called with, in order
    inFlight,       \* how many calls of tts.generate have not come back
    segments,       \* the list segments: the length in ms of each element
    reported,       \* the values passed to progress_callback, in order
    sink,           \* the file at out_path
    \* ---- clean_text ----
    raw_text,       \* the text argument
    xpc,            \* "start" before the call, "done" after it
    cleaned_text,   \* the returned text
    \* ---- clean_text_with_llm ----
    llm_chunks,     \* what chunk_text(text, max_length=1000) returns
    llm_callback,   \* whether the caller passed a progress callback
    lpc,            \* where clean_text_with_llm is
    loop_i,         \* how many turns of the loop are complete
    cleaner_calls,  \* the chunks cleaner.clean_chunk was called with
    cleaned_chunks, \* the list cleaned_chunks
    llm_reported,   \* the values passed to progress_callback, in order
    is_loaded,      \* cleaner.is_loaded
    llm_result      \* how the call ended: [kind, value]

chunkVars == <<sentences, max_length, cpc, raised, chunks>>
diskVars == <<indexFile, dirs, files>>
voiceVars == <<indexFile, dirs, files, metadata, lastCall>>
threadVars == <<pc, ret, iter, buf>>
readerVars == <<rpc, readerSaw>>
concVars == <<pc, ret, iter, buf, rpc, readerSaw, lockHeld>>
synthVars == <<tts, progress_callback, lines, tpc, line_i, calls, inFlight,
               segments, reported, sink>>
cleanVars == <<raw_text, xpc, cleaned_text>>
llmVars == <<llm_chunks, llm_callback, lpc, loop_i, cleaner_calls,
             cleaned_chunks, llm_reported, is_loaded, llm_result>>

----------------------------------------------------------------------------
(* Bounds of the chunk_text inputs.                                        *)

\* The sentences of an input, joined by one separator each, have at most
\* this many characters.
MaxTextLen == 5

\* max_length ranges over -1 .. MaxMaxLength.
MaxMaxLength == 5

SP == " "
NL == "\n"

\* The characters of the model's texts: two letters, the space and one
\* whitespace character that is not a space.
Char == {"a", "b", SP, NL}

\* str.isspace for the characters of Char.
IsSpace(c) == c \in {SP, NL}

RECURSIVE Strings(_)
\* All character sequences of length <= n.
Strings(n) ==
    IF n = 0 THEN {<<>>}
    ELSE LET S == Strings(n - 1)
         IN  S \cup {Append(s, c) : s \in {x \in S : Len(x) = n - 1}, c \in Char}

RECURSIVE SentenceLists(_)
\* All lists of sentences in which the sentences and one separator after each
\* take at most budget characters.
SentenceLists(budget) ==
    IF budget <= 0 THEN {<<>>}
    ELSE {<<>>} \cup
         UNION {{<<s>> \o l : l \in SentenceLists(budget - Len(s) - 1)} :
                    s \in Strings(budget - 1)}

----------------------------------------------------------------------------
(* Python string primitives.                                               *)

RECURSIVE lstrip(_)
lstrip(s) ==
    IF s # <<>> /\ IsSpace(Head(s)) THEN lstrip(Tail(s)) ELSE s

RECURSIVE rstrip(_)
rstrip(s) ==
    IF s # <<>> /\ IsSpace(s[Len(s)]) THEN rstrip(SubSeq(s, 1, Len(s) - 1)) ELSE s

\* str.strip(): leading and trailing whitespace removed.
strip(s) == rstrip(lstrip(s))

RECURSIVE SplitFrom(_, _, _)
\* The words of s from position i on, cur being the word read so far.
SplitFrom(s, i, cur) ==
    IF i > Len(s) THEN <<cur>>
    ELSE IF s[i] = SP THEN <<cur>> \o SplitFrom(s, i + 1, <<>>)
    ELSE SplitFrom(s, i + 1, Append(cur, s[i]))

\* str.split(' '): a split at every single space; runs of spaces give empty
\* words and "" gives [""].
split(s) == SplitFrom(s, 1, <<>>)

RECURSIVE join(_)
\* ' '.join(words)
join(words) ==
    IF words = <<>> THEN <<>>
    ELSE IF Len(words) = 1 THEN words[1]
    ELSE words[1] \o <<SP>> \o join(Tail(words))

----------------------------------------------------------------------------
(* chunk_text, src/src/doc_reader.py lines 130-186.                        *)

\* WordStep without lines 173-174: a full word group is not emitted.
WordStep_NoFlush(st, word, maxlen) ==
    LET word_length == Len(word) + 1
    IN  IF st.temp_length + word_length <= maxlen
        THEN [st EXCEPT !.temp_chunk = Append(@, word),
                        !.temp_length = @ + word_length]
        ELSE [chunks      |-> st.chunks,
              temp_chunk  |-> <<word>>,
              temp_length |-> word_length]

\* One turn of "for word in words" (lines 167-176); st holds chunks,
\* temp_chunk and temp_length.
WordStep(st, word, maxlen) ==
    LET word_length == Len(word) + 1
    IN  IF st.temp_length + word_length <= maxlen
        THEN [st EXCEPT !.temp_chunk = Append(@, word),
                        !.temp_length = @ + word_length]
        ELSE [chunks      |-> IF st.temp_chunk # <<>>
                              THEN Append(st.chunks, join(st.temp_chunk))
                              ELSE st.chunks,
              temp_chunk  |-> <<word>>,
              temp_length |-> word_length]

RECURSIVE WordLoop(_, _, _, _)
WordLoop(words, i, st, maxlen) ==
    IF i > Len(words) THEN st
    ELSE WordLoop(words, i + 1, WordStep(st, words[i], maxlen), maxlen)

\* Lines 161-181: a current chunk longer than max_length is split by words.
SplitLongChunk(st, maxlen) ==
    IF Len(st.current_chunk) > maxlen
    THEN LET w == WordLoop(split(st.current_chunk), 1,
                           [chunks |-> st.chunks, temp_chunk |-> <<>>,
                            temp_length |-> 0], maxlen)
         IN  [chunks        |-> w.chunks,
              current_chunk |-> IF w.temp_chunk # <<>> THEN join(w.temp_chunk)
                                ELSE <<>>]
    ELSE st

\* PackSentence that does not count the joining space in line 151.
PackSentence_NoSeparator(st, sentence, maxlen) ==
    IF st.current_chunk # <<>>
       /\ Len(st.current_chunk) + Len(sentence) > maxlen
    THEN [chunks |-> Append(st.chunks, st.current_chunk),
          current_chunk |-> sentence]
    ELSE IF st.current_chunk # <<>>
    THEN [st EXCEPT !.current_chunk = @ \o <<SP>> \o sentence]
    ELSE [st EXCEPT !.current_chunk = sentence]

\* PackSentence with ">=" for ">" in line 151.
PackSentence_OffByOne(st, sentence, maxlen) ==
    IF st.current_chunk # <<>>
       /\ Len(st.current_chunk) + Len(sentence) + 1 >= maxlen
    THEN [chunks |-> Append(st.chunks, st.current_chunk),
          current_chunk |-> sentence]
    ELSE IF st.current_chunk # <<>>
    THEN [st EXCEPT !.current_chunk = @ \o <<SP>> \o sentence]
    ELSE [st EXCEPT !.current_chunk = sentence]

\* Lines 151-158: the sentence joins the current chunk or starts a new one.
PackSentence(st, sentence, maxlen) ==
    IF st.current_chunk # <<>>
       /\ Len(st.current_chunk) + Len(sentence) + 1 > maxlen
    THEN [chunks |-> Append(st.chunks, st.current_chunk),
          current_chunk |-> sentence]
    ELSE IF st.current_chunk # <<>>
    THEN [st EXCEPT !.current_chunk = @ \o <<SP>> \o sentence]
    ELSE [st EXCEPT !.current_chunk = sentence]

\* One turn of "for sentence in sentences" (lines 144-181).
SentenceStep(st, raw, maxlen) ==
    LET sentence == strip(raw)
    IN  IF sentence = <<>> THEN st
        ELSE SplitLongChunk(PackSentence(st, sentence, maxlen), maxlen)

RECURSIVE SentenceLoop(_, _, _, _)
SentenceLoop(sents, i, st, maxlen) ==
    IF i > Len(sents) THEN st
    ELSE SentenceLoop(sents, i + 1, SentenceStep(st, sents[i], maxlen), maxlen)

\* chunk_text with a check of max_length in front that raises.
chunk_text_Validating(sents, maxlen) ==
    LET st == SentenceLoop(sents, 1,
                           [chunks |-> <<>>, current_chunk |-> <<>>], maxlen)
    IN  IF maxlen <= 0 THEN [raised |-> TRUE, value |-> <<>>]
        ELSE [raised |-> FALSE,
              value  |-> IF st.current_chunk # <<>>
                         THEN Append(st.chunks, st.current_chunk)
                         ELSE st.chunks]

\* chunk_text with sents standing for nltk.sent_tokenize(text).  No path of
\* the function raises.
chunk_text(sents, maxlen) ==
    LET st == SentenceLoop(sents, 1,
                           [chunks |-> <<>>, current_chunk |-> <<>>], maxlen)
    IN  [raised |-> FALSE,
         value  |-> IF st.current_chunk # <<>>
                    THEN Append(st.chunks, st.current_chunk)
                    ELSE st.chunks]

----------------------------------------------------------------------------
(* The chunk_text specification: any input, then the call.                 *)

ChunkInputs ==
    /\ sentences \in SentenceLists(MaxTextLen + 1)
    /\ max_length \in (0 - 1) .. MaxMaxLength
    /\ cpc = "start"
    /\ raised = FALSE
    /\ chunks = <<>>

CallChunkText ==
    /\ cpc = "start"
    /\ LET r == chunk_text(sentences, max_length)
       IN  /\ raised' = r.raised
           /\ chunks' = r.value
    /\ cpc' = "done"
    /\ UNCHANGED <<sentences, max_length>>

\* The chunk_text variables while the registry is under check.
ChunkIdle ==
    /\ sentences = <<>>
    /\ max_length = 1
    /\ cpc = "start"
    /\ raised = FALSE
    /\ chunks = <<>>

----------------------------------------------------------------------------
(* The voice registry, src/src/voice_manager.py.                           *)
(* A dict is a function from names to entries; the disk is the index file, *)
(* the set of directories under voices_dir and the set of files in them.   *)

\* Two VoiceManager objects can be open on the registry directory.
Handles == {1, 2}

\* "Model default", the reserved name of get_voice_list and get_voice_path.
ModelDefault ==
    <<"M", "o", "d", "e", "l", " ", "d", "e", "f", "a", "u", "l", "t">>

Digit == <<"0", "1", "2", "3", "4", "5", "6", "7", "8", "9">>

\* "voice_<i>", the names of the concurrent-access test.
VoiceName(i) == <<"v", "o", "i", "c", "e", "_", Digit[i + 1]>>

\* The names the sequential registry is called with: the empty name, two
\* names that differ only in a space and an underscore, and the reserved one.
Names == {<<>>, <<"a", " ", "b">>, <<"a", "_", "b">>, ModelDefault}

\* audio_file.name of the uploads: s.wav, S.MP3 and s.txt.
Uploads == {<<"s", ".", "w", "a", "v">>, <<"S", ".", "M", "P", "3">>,
            <<"s", ".", "t", "x", "t">>}

\* The characters of the names, in code point order (the order of sorted()).
CodeOrder ==
    <<" ", ".", "0", "1", "2", "3", "4", "5", "6", "7", "8", "9",
      "M", "P", "S", "_",
      "a", "b", "c", "d", "e", "f", "i", "l", "o", "p", "s", "t", "u", "v",
      "w", "x">>

Ord(c) == CHOOSE i \in 1 .. Len(CodeOrder) : CodeOrder[i] = c

RECURSIVE StrLess(_, _)
\* a < b for Python strings.
StrLess(a, b) ==
    IF b = <<>> THEN FALSE
    ELSE IF a = <<>> THEN TRUE
    ELSE IF Head(a) = Head(b) THEN StrLess(Tail(a), Tail(b))
    ELSE Ord(Head(a)) < Ord(Head(b))

RECURSIVE sorted_Descending(_)
\* sorted(list(S), reverse=True)
sorted_Descending(S) ==
    IF S = {} THEN <<>>
    ELSE LET m == CHOOSE x \in S : \A y \in S \ {x} : StrLess(y, x)
         IN  <<m>> \o sorted_Descending(S \ {m})

RECURSIVE sorted(_)
\* sorted(list(S)) for a set S of strings.
sorted(S) ==
    IF S = {} THEN <<>>
    ELSE LET m == CHOOSE x \in S : \A y \in S \ {x} : StrLess(x, y)
         IN  <<m>> \o sorted(S \ {m})

\* str.lower() for one character.
LowerChar(c) ==
    CASE c = "M" -> "m" [] c = "P" -> "p" [] c = "S" -> "s" [] OTHER -> c

lower(s) == [i \in 1 .. Len(s) |-> LowerChar(s[i])]

endswith(s, suffix) ==
    /\ Len(s) >= Len(suffix)
    /\ SubSeq(s, Len(s) - Len(suffix) + 1, Len(s)) = suffix

\* name.replace(" ", "_")
replace(name) == [i \in 1 .. Len(name) |-> IF name[i] = SP THEN "_" ELSE name[i]]

\* Lines 69-75: the extension add_voice accepts, "" for none.
Extension(audio_name) ==
    LET original_name == lower(audio_name)
    IN  IF endswith(original_name, <<".", "w", "a", "v">>) THEN "wav"
        ELSE IF endswith(original_name, <<".", "m", "p", "3">>) THEN "mp3"
        ELSE ""

EmptyDict == [n \in {} |-> <<>>]

\* d[name] = entry
DictSet(d, name, entry) ==
    [n \in DOMAIN d \cup {name} |-> IF n = name THEN entry ELSE d[n]]

\* del d[name]
DictDel(d, name) == [n \in DOMAIN d \ {name} |-> d[n]]

\* The index file: absent, or empty (just truncated), or partial (not a
\* whole JSON document), or the JSON document of a dict.
AbsentFile == [kind |-> "absent", data |-> EmptyDict]
EmptyFile == [kind |-> "empty", data |-> EmptyDict]
PartialFile == [kind |-> "partial", data |-> EmptyDict]
JsonFile(d) == [kind |-> "json", data |-> d]

\* The length of json.dump(d, indent=2), up to a factor: per entry the key,
\* the three values (the directory twice) and the fixed punctuation.
RECURSIVE JsonLen(_)
JsonLen(d) ==
    IF DOMAIN d = {} THEN 2
    ELSE LET n == CHOOSE x \in DOMAIN d : TRUE
         IN  Len(n) + 2 * Len(d[n].dir) + Len(d[n].original_name) + 90
             + JsonLen(DictDel(d, n))

\* _load_metadata (lines 30-38) on a given content of the index file:
\* the dict of a JSON document, {} when the file is absent or does not parse.
LoadFrom(file) == IF file.kind = "json" THEN file.data ELSE EmptyDict

\* What the environment can make fail in one call: nothing, the mkdir of the
\* voice directory, the writing of the audio file, the opening of the index
\* for writing, the writing of the index after the open truncated it, the
\* rmtree before or after it removed files.
AddFaults == {"none", "mkdir", "audio_write", "save_open", "save_dump"}
RemoveFaults == {"none", "rmtree", "rmtree_partial", "save_open", "save_dump"}

\* What pydub's conversion of an mp3 upload does (lines 88-97): it succeeds,
\* it fails before writing sample.wav, or it fails after writing it.
Conversions == {"ok", "fail_before_export", "fail_after_export"}

\* Only an mp3 upload is converted.
ConversionsOf(audio_name) ==
    IF Extension(audio_name) = "mp3" THEN Conversions ELSE {"ok"}

\* The faults that can strike a call are those of the steps it reaches.
AddFaultsOf(h, name, audio_name) ==
    IF name = <<>> \/ name \in DOMAIN metadata[h] THEN {"none"}
    ELSE IF Extension(audio_name) = "" THEN {"none", "mkdir"}
    ELSE AddFaults

RemoveFaultsOf(h, name) ==
    IF name \notin DOMAIN metadata[h] THEN {"none"}
    ELSE IF metadata[h][name].dir \notin dirs
    THEN RemoveFaults \ {"rmtree", "rmtree_partial"}
    ELSE RemoveFaults

\* _save_metadata (lines 40-46) as one step: the index file afterwards.
SavedIndex(d, fault) ==
    IF fault = "save_open" THEN indexFile
    ELSE IF fault = "save_dump" THEN PartialFile
    ELSE JsonFile(d)

SaveRaises(fault) == fault \in {"save_open", "save_dump"}

\* Lines 77-97: the files of the voice directory after the upload is
\* written and, for an mp3, converted.
FilesAfterUpload(voice_dir, ext, conv) ==
    LET audio_path == <<voice_dir, IF ext = "wav" THEN "sample.wav" ELSE "sample.mp3">>
        wav_path == <<voice_dir, "sample.wav">>
        written == files \cup {audio_path}
    IN  IF ext = "wav" THEN written
        ELSE IF conv = "ok" THEN (written \cup {wav_path}) \ {audio_path}
        ELSE written \cup {wav_path}

\* add_voice without the test for a registered name on line 61.
AddVoice_Replacing(h, name, audio_name, conv, fault) ==
    LET voice_dir == replace(name)
        ext == Extension(audio_name)
        entry == [path |-> <<voice_dir, "sample.wav">>,
                  original_name |-> audio_name,
                  dir |-> voice_dir]
        updated == DictSet(metadata[h], name, entry)
        Return(ok) == lastCall' = [op |-> "add", h |-> h, name |-> name, ok |-> ok]
    IN  IF name = <<>>
        THEN Return(FALSE) /\ UNCHANGED <<diskVars, metadata>>
        ELSE IF ext = ""
        THEN /\ Return(FALSE)
             /\ dirs' = dirs \cup {voice_dir}
             /\ UNCHANGED <<indexFile, files, metadata>>
        ELSE /\ dirs' = dirs \cup {voice_dir}
             /\ files' = FilesAfterUpload(voice_dir, ext, conv)
             /\ metadata' = [metadata EXCEPT ![h] = updated]
             /\ indexFile' = SavedIndex(updated, fault)
             /\ Return(~SaveRaises(fault))

\* add_voice (lines 48-111) through handle h, as one call.
AddVoice(h, name, audio_name, conv, fault) ==
    LET voice_dir == replace(name)
        ext == Extension(audio_name)
        entry == [path |-> <<voice_dir, "sample.wav">>,
                  original_name |-> audio_name,
                  dir |-> voice_dir]
        updated == DictSet(metadata[h], name, entry)
        Return(ok) == lastCall' = [op |-> "add", h |-> h, name |-> name, ok |-> ok]
    IN  IF name = <<>> \/ name \in DOMAIN metadata[h]
        THEN Return(FALSE) /\ UNCHANGED <<diskVars, metadata>>
        ELSE IF fault = "mkdir"
        THEN Return(FALSE) /\ UNCHANGED <<diskVars, metadata>>
        ELSE IF ext = ""
        THEN /\ Return(FALSE)
             /\ dirs' = dirs \cup {voice_dir}
             /\ UNCHANGED <<indexFile, files, metadata>>
        ELSE IF fault = "audio_write"
        THEN /\ Return(FALSE)
             /\ dirs' = dirs \cup {voice_dir}
             /\ files' = files \cup {<<voice_dir, IF ext = "wav" THEN "sample.wav"
                                                   ELSE "sample.mp3">>}
             /\ UNCHANGED <<indexFile, metadata>>
        ELSE /\ dirs' = dirs \cup {voice_dir}
             /\ files' = FilesAfterUpload(voice_dir, ext, conv)
             /\ metadata' = [metadata EXCEPT ![h] = updated]
             /\ indexFile' = SavedIndex(updated, fault)
             /\ Return(~SaveRaises(fault))

\* remove_voice (lines 113-140) through handle h, as one call.
RemoveVoice(h, name, fault) ==
    LET voice_dir == metadata[h][name].dir
        updated == DictDel(metadata[h], name)
        Return(ok) == lastCall' = [op |-> "remove", h |-> h, name |-> name, ok |-> ok]
    IN  IF name \notin DOMAIN metadata[h]
        THEN Return(FALSE) /\ UNCHANGED <<diskVars, metadata>>
        ELSE IF voice_dir \in dirs /\ fault = "rmtree"
        THEN Return(FALSE) /\ UNCHANGED <<diskVars, metadata>>
        ELSE IF voice_dir \in dirs /\ fault = "rmtree_partial"
        THEN /\ Return(FALSE)
             /\ files' = {f \in files : f[1] # voice_dir}
             /\ UNCHANGED <<indexFile, dirs, metadata>>
        ELSE /\ dirs' = dirs \ {voice_dir}
             /\ files' = {f \in files : f[1] # voice_dir}
             /\ metadata' = [metadata EXCEPT ![h] = updated]
             /\ indexFile' = SavedIndex(updated, fault)
             /\ Return(~SaveRaises(fault))

\* get_voice_list (lines 142-151)
get_voice_list(h) == <<ModelDefault>> \o sorted(DOMAIN metadata[h])

\* None
None == <<>>

\* get_voice_path without the os.path.exists test of line 169.
get_voice_path_Unchecked(h, name) ==
    IF name = ModelDefault THEN None
    ELSE IF name \in DOMAIN metadata[h] THEN metadata[h][name].path
    ELSE None

\* get_voice_path (lines 153-171)
get_voice_path(h, name) ==
    IF name = ModelDefault THEN None
    ELSE IF name \in DOMAIN metadata[h] /\ metadata[h][name].path \in files
    THEN metadata[h][name].path
    ELSE None

\* A call of get_voice_path through handle h: it returns (ok), and value is
\* what it returns; the method assigns nothing.
GetVoicePath(h, name) ==
    /\ lastCall' = [op |-> "path", h |-> h, name |-> name, ok |-> TRUE,
                    value |-> get_voice_path(h, name)]
    /\ UNCHANGED <<diskVars, metadata>>

\* voice_exists (lines 173-183)
voice_exists(h, name) == name \in DOMAIN metadata[h]

\* A freshly created registry directory with one VoiceManager open on it
\* (__init__, lines 17-28); the second handle is not in use.
VoiceStart ==
    /\ indexFile = AbsentFile
    /\ dirs = {}
    /\ files = {}
    /\ metadata = [h \in Handles |-> EmptyDict]
    /\ lastCall = [op |-> "init", h |-> 1, name |-> <<>>, ok |-> TRUE]

\* VoiceManager(voices_dir) again on the same directory (lines 24-28): the
\* handle starts from what _load_metadata reads.
Reopen(h) ==
    /\ metadata' = [metadata EXCEPT ![h] = LoadFrom(indexFile)]
    /\ lastCall' = [op |-> "init", h |-> h, name |-> <<>>, ok |-> TRUE]
    /\ UNCHANGED diskVars

----------------------------------------------------------------------------
(* Concurrent callers.  VoiceManager takes no lock and has no lock_file    *)
(* attribute: the steps below are the statements of add_voice,             *)
(* _save_metadata and _load_metadata, interleaved as threads of one        *)
(* process (sharing self.metadata) or as another process (a handle of its  *)
(* own) interleave them.  The lock file is the one the locking test takes. *)

\* The threads of test_concurrent_access: thread t adds "voice_<t-1>"
\* through the shared handle 1.  The test starts five; the model runs
\* NumAdders of them.
NumAdders == 3

Adders == 1 .. NumAdders

ThreadName(t) == VoiceName(t - 1)

\* dummy_audio.name = "test.wav"
TestUpload == <<"t", "e", "s", "t", ".", "w", "a", "v">>

Size(d) == Cardinality(DOMAIN d)

NoIter == [used |-> 0, pos |-> 0]

ConcIdle ==
    /\ pc = [t \in Adders |-> "start"]
    /\ ret = [t \in Adders |-> FALSE]
    /\ iter = [t \in Adders |-> NoIter]
    /\ buf = [t \in Adders |-> EmptyDict]
    /\ rpc = "start"
    /\ readerSaw = "nothing"
    /\ lockHeld = FALSE

\* The thread returns ok.
Return(t, ok) ==
    /\ pc' = [pc EXCEPT ![t] = "done"]
    /\ ret' = [ret EXCEPT ![t] = ok]

Goto(t, label) == pc' = [pc EXCEPT ![t] = label] /\ UNCHANGED ret

\* Line 61: the name check.
AddCheck(t) ==
    /\ pc[t] = "start"
    /\ IF ThreadName(t) = <<>> \/ ThreadName(t) \in DOMAIN metadata[1]
       THEN Return(t, FALSE)
       ELSE Goto(t, "files")
    /\ UNCHANGED <<voiceVars, iter, buf, readerVars, lockHeld>>

\* Lines 65-97: the voice directory and the audio file in it; they are the
\* thread's own, no other thread reads or writes them.
AddFiles(t) ==
    /\ pc[t] = "files"
    /\ LET voice_dir == replace(ThreadName(t))
           ext == Extension(TestUpload)
       IN  IF ext = ""
           THEN /\ dirs' = dirs \cup {voice_dir}
                /\ UNCHANGED files
                /\ Return(t, FALSE)
           ELSE /\ dirs' = dirs \cup {voice_dir}
                /\ files' = FilesAfterUpload(voice_dir, ext, "ok")
                /\ Goto(t, "update")
    /\ UNCHANGED <<indexFile, metadata, lastCall, iter, buf, readerVars, lockHeld>>

\* Lines 100-104: self.metadata[name] = {...}
AddUpdate(t) ==
    /\ pc[t] = "update"
    /\ LET voice_dir == replace(ThreadName(t))
       IN  metadata' = [metadata EXCEPT ![1] =
               DictSet(@, ThreadName(t),
                       [path |-> <<voice_dir, "sample.wav">>,
                        original_name |-> TestUpload,
                        dir |-> voice_dir])]
    /\ Goto(t, "open")
    /\ UNCHANGED <<diskVars, lastCall, iter, buf, readerVars, lockHeld>>

\* Line 43: open(self.metadata_file, 'w') creates or truncates the file.
SaveOpen(t) ==
    /\ pc[t] = "open"
    /\ indexFile' = EmptyFile
    /\ Goto(t, "iter")
    /\ UNCHANGED <<dirs, files, metadata, lastCall, iter, buf, readerVars, lockHeld>>

\* Line 44: json.dump starts to iterate over self.metadata; the iterator
\* remembers the size of the dict.
SaveIter(t) ==
    /\ pc[t] = "iter"
    /\ iter' = [iter EXCEPT ![t] = [used |-> Size(metadata[1]), pos |-> 0]]
    /\ Goto(t, "dump")
    /\ UNCHANGED <<voiceVars, buf, readerVars, lockHeld>>

\* What a write of new content at offset 0 of the file leaves: the new
\* content, or, when the file held more bytes, the new content followed by
\* the rest of the old (no JSON document).
Overwritten(file, d) ==
    IF file.kind = "json" /\ JsonLen(file.data) > JsonLen(d) THEN PartialFile
    ELSE IF file.kind = "partial" THEN PartialFile
    ELSE JsonFile(d)

\* Line 44, one item of the dict: the iterator raises RuntimeError when the
\* dict changed size since it was created; _save_metadata turns that into
\* its RuntimeError, the with-block closes the file, which flushes the
\* part written so far, and add_voice returns False (lines 45-46, 109-111).
SaveNext(t) ==
    /\ pc[t] = "dump"
    /\ IF Size(metadata[1]) # iter[t].used
       THEN /\ indexFile' = PartialFile
            /\ UNCHANGED <<iter, buf>>
            /\ Return(t, FALSE)
       ELSE IF iter[t].pos < iter[t].used
       THEN /\ iter' = [iter EXCEPT ![t].pos = @ + 1]
            /\ UNCHANGED <<indexFile, buf>>
            /\ Goto(t, "dump")
       ELSE /\ buf' = [buf EXCEPT ![t] = metadata[1]]
            /\ UNCHANGED <<indexFile, iter>>
            /\ Goto(t, "close")
    /\ UNCHANGED <<dirs, files, metadata, lastCall, readerVars, lockHeld>>

\* End of the with-block (line 44): the buffered document is written at the
\* start of the file; add_voice returns True (line 107).
SaveClose(t) ==
    /\ pc[t] = "close"
    /\ indexFile' = Overwritten(indexFile, buf[t])
    /\ Return(t, TRUE)
    /\ UNCHANGED <<dirs, files, metadata, lastCall, iter, buf, readerVars, lockHeld>>

AdderStep(t) ==
    \/ AddCheck(t)
    \/ AddFiles(t)
    \/ AddUpdate(t)
    \/ SaveOpen(t)
    \/ SaveIter(t)
    \/ SaveNext(t)
    \/ SaveClose(t)

\* _load_metadata called while others run (test_lock_contention; __init__
\* of a second VoiceManager on the directory, handle 2).
\* Line 32: self.metadata_file.exists()
LoadExists ==
    /\ rpc = "start"
    /\ IF indexFile.kind = "absent"
       THEN /\ rpc' = "done"
            /\ readerSaw' = "absent"
            /\ metadata' = [metadata EXCEPT ![2] = EmptyDict]
       ELSE /\ rpc' = "read"
            /\ UNCHANGED <<readerSaw, metadata>>
    /\ UNCHANGED <<diskVars, lastCall, threadVars, lockHeld>>

\* Lines 34-37: open, json.load; {} when the content does not parse.
LoadRead ==
    /\ rpc = "read"
    /\ rpc' = "done"
    /\ readerSaw' = indexFile.kind
    /\ metadata' = [metadata EXCEPT ![2] = LoadFrom(indexFile)]
    /\ UNCHANGED <<diskVars, lastCall, threadVars, lockHeld>>

\* The reader calls _load_metadata again.
LoadAgain ==
    /\ rpc = "done"
    /\ rpc' = "start"
    /\ UNCHANGED <<voiceVars, threadVars, readerSaw, lockHeld>>

\* hold_lock of test_lock_contention: another party takes the lock file
\* voices.json.lock ...
ExternalAcquire ==
    /\ ~lockHeld
    /\ lockHeld' = TRUE
    /\ UNCHANGED <<voiceVars, threadVars, readerVars>>

\* ... and releases it.
ExternalRelease ==
    /\ lockHeld
    /\ lockHeld' = FALSE
    /\ UNCHANGED <<voiceVars, threadVars, readerVars>>

----------------------------------------------------------------------------
(* text2audio, src/src/doc_reader.py lines 188-238.                        *)
(* An AudioSegment is its length in ms; the file at out_path is the track  *)
(* last exported to it.                                                    *)

\* chunk_text returns at most this many segments.
MaxSegments == 3

\* The lengths in ms of the speech tts.generate makes of a segment.
Durations == {1000, 2000}

\* silence = AudioSegment.silent(duration=500)
SilenceMs == 500

\* The synthesizer: ChatterboxLocal as text2audio constructs it when the
\* caller passes none, or an object the caller passes as tts.
Synthesizers == {"ChatterboxLocal", "injected"}

RECURSIVE Sum(_)
\* len(sum(segments, AudioSegment.empty()))
Sum(segs) == IF segs = <<>> THEN 0 ELSE Head(segs) + Sum(Tail(segs))

\* No file at out_path.
NoFile == [exists |-> FALSE, duration |-> 0, parts |-> 0]

\* A call of text2audio about to start: any synthesizer, with or without a
\* progress callback, on a text of any number of segments.
SynthInputs ==
    /\ tts \in Synthesizers
    /\ progress_callback \in BOOLEAN
    /\ lines \in UNION {[1 .. n -> Durations] : n \in 0 .. MaxSegments}
    /\ tpc = "start"
    /\ line_i = 0
    /\ calls = <<>>
    /\ inFlight = 0
    /\ segments = <<>>
    /\ reported = <<>>
    /\ sink = NoFile

\* The text2audio variables while another component is under check.
SynthIdle ==
    /\ tts = "injected"
    /\ progress_callback = FALSE
    /\ lines = <<>>
    /\ tpc = "start"
    /\ line_i = 0
    /\ calls = <<>>
    /\ inFlight = 0
    /\ segments = <<>>
    /\ reported = <<>>
    /\ sink = NoFile

\* Lines 199-212: the synthesizer is loaded, the text is chunked, the list
\* of segments starts empty.
Start ==
    /\ tpc = "start"
    /\ tpc' = "loop"
    /\ segments' = <<>>
    /\ UNCHANGED <<tts, progress_callback, lines, line_i, calls, inFlight,
                   reported, sink>>

\* The for statement with one segment too few.
LoopHead_StopsEarly ==
    /\ tpc = "loop"
    /\ tpc' = IF line_i < Len(lines) - 1 THEN "progress" ELSE "return"
    /\ UNCHANGED <<tts, progress_callback, lines, line_i, calls, inFlight,
                   segments, reported, sink>>

\* Line 214: the for statement takes the next segment, or the loop ends.
LoopHead ==
    /\ tpc = "loop"
    /\ tpc' = IF line_i < Len(lines) THEN "progress" ELSE "return"
    /\ UNCHANGED <<tts, progress_callback, lines, line_i, calls, inFlight,
                   segments, reported, sink>>

\* The value (i + 1) / len(lines), as numerator and denominator.
Fraction(num, den) == [num |-> num, den |-> den]

\* a <= b for two such values.
FractionLeq(a, b) == a.num * b.den <= b.num * a.den

\* A callback that is passed i / len(lines).
ReportProgress_ZeroBased ==
    /\ tpc = "progress"
    /\ reported' = IF progress_callback
                   THEN Append(reported, Fraction(line_i, Len(lines)))
                   ELSE reported
    /\ tpc' = "generate"
    /\ UNCHANGED <<tts, progress_callback, lines, line_i, calls, inFlight,
                   segments, sink>>

\* Lines 215-216: the callback, if there is one, is passed (i + 1) / len(lines).
ReportProgress ==
    /\ tpc = "progress"
    /\ reported' = IF progress_callback
                   THEN Append(reported, Fraction(line_i + 1, Len(lines)))
                   ELSE reported
    /\ tpc' = "generate"
    /\ UNCHANGED <<tts, progress_callback, lines, line_i, calls, inFlight,
                   segments, sink>>

\* Line 219: tts.generate is called with the segment.
CallGenerate ==
    /\ tpc = "generate"
    /\ calls' = Append(calls, line_i + 1)
    /\ inFlight' = inFlight + 1
    /\ tpc' = "in_generate"
    /\ UNCHANGED <<tts, progress_callback, lines, line_i, segments, reported,
                   sink>>

\* The segment appended without the silence.
GenerateReturn_NoSilence ==
    /\ tpc = "in_generate"
    /\ tts = "injected"
    /\ inFlight' = inFlight - 1
    /\ segments' = Append(segments, lines[line_i + 1])
    /\ tpc' = "export"
    /\ UNCHANGED <<tts, progress_callback, lines, line_i, calls, reported,
                   sink>>

\* Lines 219-228: the call returns a buffer, AudioSegment.from_wav reads it,
\* and the speech followed by the silence is appended to segments.  Only a
\* synthesizer the caller passed can return: ChatterboxLocal.generate
\* (tts_gen_chaterbox_local.py line 35) has no cfg_weight and no
\* temperature parameter, which text2audio passes by keyword.
GenerateReturn ==
    /\ tpc = "in_generate"
    /\ tts = "injected"
    /\ inFlight' = inFlight - 1
    /\ segments' = Append(segments, lines[line_i + 1] + SilenceMs)
    /\ tpc' = "export"
    /\ UNCHANGED <<tts, progress_callback, lines, line_i, calls, reported,
                   sink>>

\* The call raises; text2audio catches nothing, the exception leaves it.
GenerateRaise ==
    /\ tpc = "in_generate"
    /\ inFlight' = inFlight - 1
    /\ tpc' = "raised"
    /\ UNCHANGED <<tts, progress_callback, lines, line_i, calls, segments,
                   reported, sink>>

\* Lines 230-236, inside the loop: the segments so far are summed and the
\* sum is exported to out_path; the iteration is complete.
Export ==
    /\ tpc = "export"
    /\ sink' = [exists |-> TRUE, duration |-> Sum(segments),
                parts |-> Len(segments)]
    /\ line_i' = line_i + 1
    /\ tpc' = "loop"
    /\ UNCHANGED <<tts, progress_callback, lines, calls, inFlight, segments,
                   reported>>

\* Line 238: return out_path
ReturnOutPath ==
    /\ tpc = "return"
    /\ tpc' = "returned"
    /\ UNCHANGED <<tts, progress_callback, lines, line_i, calls, inFlight,
                   segments, reported, sink>>

----------------------------------------------------------------------------
(* clean_text, src/src/document_parser.py lines 131-153.                   *)
(* re.sub replaces the leftmost match, then goes on after it.              *)

\* The texts clean_text is called with have at most this many characters.
MaxCleanLen == 7

\* Their characters: a letter, a digit, the hyphen, the space, the newline.
CleanChar == {"a", "1", "-", SP, NL}

RECURSIVE CleanStrings(_)
\* All sequences of these characters of length <= n.
CleanStrings(n) ==
    IF n = 0 THEN {<<>>}
    ELSE LET S == CleanStrings(n - 1)
         IN  S \cup {Append(s, c) :
                         s \in {x \in S : Len(x) = n - 1}, c \in CleanChar}

\* \d
Digits == {Digit[k] : k \in 1 .. Len(Digit)}

\* \s for the characters of CleanChar.
Whitespace == {SP, NL}

\* [ \t] for the characters of CleanChar.
Blanks == {SP}

\* [a-z]
IsLower(c) ==
    c \in {"a", "b", "c", "d", "e", "f", "g", "h", "i", "j", "k", "l", "m",
           "n", "o", "p", "q", "r", "s", "t", "u", "v", "w", "x", "y", "z"}

RECURSIVE RunEnd(_, _, _)
\* The last position of the longest run of characters of the class C that
\* starts at position i; i - 1 when there is none.
RunEnd(s, i, C) ==
    IF i <= Len(s) /\ s[i] \in C THEN RunEnd(s, i + 1, C) ELSE i - 1

\* The positions of the newlines in s[i..j].
NewlinesIn(s, i, j) == {k \in i .. j : s[k] = NL}

Max(S) == CHOOSE x \in S : \A y \in S : y <= x

RECURSIVE CollapseBlankLines(_, _)
\* Line 145, re.sub(r'\n\s*\n\s*\n+', '\n\n', text), from position i on: a
\* match starts at a newline whose run of whitespace holds at least three
\* newlines, and ends at the last newline of that run.
CollapseBlankLines(s, i) ==
    IF i > Len(s) THEN <<>>
    ELSE LET nls == NewlinesIn(s, i, RunEnd(s, i, Whitespace))
         IN  IF s[i] = NL /\ Cardinality(nls) >= 3
             THEN <<NL, NL>> \o CollapseBlankLines(s, Max(nls) + 1)
             ELSE <<s[i]>> \o CollapseBlankLines(s, i + 1)

RECURSIVE CollapseBlanks(_, _)
\* Line 146, re.sub(r'[ \t]+', ' ', text), from position i on.
CollapseBlanks(s, i) ==
    IF i > Len(s) THEN <<>>
    ELSE IF s[i] \in Blanks
    THEN <<SP>> \o CollapseBlanks(s, RunEnd(s, i, Blanks) + 1)
    ELSE <<s[i]>> \o CollapseBlanks(s, i + 1)

RECURSIVE RemovePageNumbers(_, _)
\* Line 149, re.sub(r'\n\d+\n', '\n', text), from position i on.
RemovePageNumbers(s, i) ==
    IF i > Len(s) THEN <<>>
    ELSE LET d == RunEnd(s, i + 1, Digits)
         IN  IF s[i] = NL /\ d >= i + 1 /\ d + 1 <= Len(s) /\ s[d + 1] = NL
             THEN <<NL>> \o RemovePageNumbers(s, d + 2)
             ELSE <<s[i]>> \o RemovePageNumbers(s, i + 1)

RECURSIVE FixHyphens(_, _)
\* Line 152, re.sub(r'([a-z])- ([a-z])', r'\1\2', text), from position i on.
FixHyphens(s, i) ==
    IF i > Len(s) THEN <<>>
    ELSE IF /\ i + 3 <= Len(s)
            /\ IsLower(s[i]) /\ s[i + 1] = "-" /\ s[i + 2] = SP
            /\ IsLower(s[i + 3])
    THEN <<s[i], s[i + 3]>> \o FixHyphens(s, i + 4)
    ELSE <<s[i]>> \o FixHyphens(s, i + 1)

\* clean_text (lines 131-153)
clean_text(text) ==
    strip(FixHyphens(
              RemovePageNumbers(
                  CollapseBlanks(CollapseBlankLines(text, 1), 1), 1), 1))

\* A call of clean_text about to start, on any text.
CleanInputs ==
    /\ raw_text \in CleanStrings(MaxCleanLen)
    /\ xpc = "start"
    /\ cleaned_text = <<>>

CallCleanText ==
    /\ xpc = "start"
    /\ cleaned_text' = clean_text(raw_text)
    /\ xpc' = "done"
    /\ UNCHANGED raw_text

\* The clean_text variables while another component is under check.
CleanIdle ==
    /\ raw_text = <<>>
    /\ xpc = "start"
    /\ cleaned_text = <<>>

----------------------------------------------------------------------------
(* clean_text_with_llm, src/src/doc_reader.py lines 104-128.               *)

\* chunk_text(text, max_length=1000) returns at most this many chunks.
MaxChunks == 3

\* The chunks it returns.
ChunkTexts == {<<"a">>, <<"b">>}

\* What cleaner.clean_chunk answers for a chunk (line 102, response.strip());
\* the model takes one answer per chunk.
Response(chunk) == chunk \o <<"'">>

NoResult == [kind |-> "none", value |-> <<>>]
Returned(value) == [kind |-> "returned", value |-> value]
Raised(error) == [kind |-> "raised", value |-> error]

\* A call of clean_text_with_llm about to start: with or without a progress
\* callback, on a text of any number of chunks.
LlmInputs ==
    /\ llm_chunks \in UNION {[1 .. n -> ChunkTexts] : n \in 0 .. MaxChunks}
    /\ llm_callback \in BOOLEAN
    /\ lpc = "load"
    /\ loop_i = 0
    /\ cleaner_calls = <<>>
    /\ cleaned_chunks = <<>>
    /\ llm_reported = <<>>
    /\ is_loaded = FALSE
    /\ llm_result = NoResult

\* The clean_text_with_llm variables while another component is under check.
LlmIdle ==
    /\ llm_chunks = <<>>
    /\ llm_callback = FALSE
    /\ lpc = "load"
    /\ loop_i = 0
    /\ cleaner_calls = <<>>
    /\ cleaned_chunks = <<>>
    /\ llm_reported = <<>>
    /\ is_loaded = FALSE
    /\ llm_result = NoResult

\* Lines 106-111: the cleaner is made and loaded, the text is chunked,
\* cleaned_chunks starts empty.
LlmLoad ==
    /\ lpc = "load"
    /\ is_loaded' = TRUE
    /\ cleaned_chunks' = <<>>
    /\ lpc' = "loop"
    /\ UNCHANGED <<llm_chunks, llm_callback, loop_i, cleaner_calls,
                   llm_reported, llm_result>>

\* Line 109: cleaner.load() raises (the model cannot be fetched or does not
\* fit); the finally clause is next.
LlmLoadRaise ==
    /\ lpc = "load"
    /\ llm_result' = Raised("load")
    /\ lpc' = "finally"
    /\ UNCHANGED <<llm_chunks, llm_callback, loop_i, cleaner_calls,
                   cleaned_chunks, llm_reported, is_loaded>>

\* Lines 114-116: one turn of "for i, chunk in enumerate(chunks)", whose
\* body is the progress callback alone, or the end of the loop.
LlmLoop ==
    /\ lpc = "loop"
    /\ IF loop_i < Len(llm_chunks)
       THEN /\ loop_i' = loop_i + 1
            /\ llm_reported' =
                   IF llm_callback
                   THEN Append(llm_reported,
                               Fraction(loop_i + 1, Len(llm_chunks)))
                   ELSE llm_reported
            /\ lpc' = "loop"
       ELSE /\ lpc' = "clean"
            /\ UNCHANGED <<loop_i, llm_reported>>
    /\ UNCHANGED <<llm_chunks, llm_callback, cleaner_calls, cleaned_chunks,
                   is_loaded, llm_result>>

\* Lines 118-119, after the loop: chunk is the last chunk the loop bound,
\* and is unbound (UnboundLocalError) when there was no chunk; the answer of
\* clean_chunk is appended.
LlmCleanChunk ==
    /\ lpc = "clean"
    /\ IF loop_i = 0
       THEN /\ llm_result' = Raised("UnboundLocalError")
            /\ lpc' = "finally"
            /\ UNCHANGED <<cleaner_calls, cleaned_chunks>>
       ELSE /\ cleaner_calls' = Append(cleaner_calls, llm_chunks[loop_i])
            /\ cleaned_chunks' =
                   Append(cleaned_chunks, Response(llm_chunks[loop_i]))
            /\ lpc' = "final_progress"
            /\ UNCHANGED llm_result
    /\ UNCHANGED <<llm_chunks, llm_callback, loop_i, llm_reported, is_loaded>>

\* Line 118: clean_chunk raises.
LlmCleanRaise ==
    /\ lpc = "clean"
    /\ loop_i > 0
    /\ cleaner_calls' = Append(cleaner_calls, llm_chunks[loop_i])
    /\ llm_result' = Raised("clean_chunk")
    /\ lpc' = "finally"
    /\ UNCHANGED <<llm_chunks, llm_callback, loop_i, cleaned_chunks,
                   llm_reported, is_loaded>>

\* Lines 121-125: the last progress value, and the answers joined by single
\* spaces are the value to return.
LlmReturn ==
    /\ lpc = "final_progress"
    /\ llm_reported' = IF llm_callback
                       THEN Append(llm_reported, Fraction(1, 1))
                       ELSE llm_reported
    /\ llm_result' = Returned(join(cleaned_chunks))
    /\ lpc' = "finally"
    /\ UNCHANGED <<llm_chunks, llm_callback, loop_i, cleaner_calls,
                   cleaned_chunks, is_loaded>>

\* Lines 127-128: finally: cleaner.unload()
LlmUnload ==
    /\ lpc = "finally"
    /\ is_loaded' = FALSE
    /\ lpc' = "done"
    /\ UNCHANGED <<llm_chunks, llm_callback, loop_i, cleaner_calls,
                   cleaned_chunks, llm_reported, llm_result>>

----------------------------------------------------------------------------
(* Specifications.                                                         *)

vars == <<chunkVars, voiceVars, concVars, synthVars, cleanVars, llmVars>>

InitChunk ==
    ChunkInputs /\ VoiceStart /\ ConcIdle /\ SynthIdle /\ CleanIdle
    /\ LlmIdle

NextChunk == CallChunkText /\ UNCHANGED <<voiceVars, concVars, synthVars, cleanVars, llmVars>>

\* chunk_text on any input.
SpecChunk == InitChunk /\ [][NextChunk]_vars

InitVoice ==
    ChunkIdle /\ VoiceStart /\ ConcIdle /\ SynthIdle /\ CleanIdle
    /\ LlmIdle

NextVoice ==
    \/ \E name \in Names, audio_name \in Uploads :
           \E conv \in ConversionsOf(audio_name),
              fault \in AddFaultsOf(1, name, audio_name) :
               AddVoice(1, name, audio_name, conv, fault)
               /\ UNCHANGED <<chunkVars, concVars, synthVars, cleanVars, llmVars>>
    \/ \E name \in Names :
           \E fault \in RemoveFaultsOf(1, name) :
               RemoveVoice(1, name, fault)
               /\ UNCHANGED <<chunkVars, concVars, synthVars, cleanVars, llmVars>>
    \/ Reopen(1) /\ UNCHANGED <<chunkVars, concVars, synthVars, cleanVars, llmVars>>

\* One VoiceManager used by one caller, call after call.
SpecVoice == InitVoice /\ [][NextVoice]_vars

NextCalls ==
    \/ \E name \in Names, audio_name \in Uploads :
           AddVoice(1, name, audio_name, "ok", "none")
           /\ UNCHANGED <<chunkVars, concVars, synthVars, cleanVars, llmVars>>
    \/ \E name \in Names :
           RemoveVoice(1, name, "none")
           /\ UNCHANGED <<chunkVars, concVars, synthVars, cleanVars, llmVars>>
    \/ \E name \in Names :
           GetVoicePath(1, name) /\ UNCHANGED <<chunkVars, concVars, synthVars, cleanVars, llmVars>>

\* One VoiceManager, call after call, on a disk where nothing fails and
\* nobody else deletes files.
SpecCalls == InitVoice /\ [][NextCalls]_vars

NextHandles ==
    \/ \E h \in Handles, name \in Names :
           AddVoice(h, name, TestUpload, "ok", "none")
           /\ UNCHANGED <<chunkVars, concVars, synthVars, cleanVars, llmVars>>
    \/ \E h \in Handles, name \in Names :
           RemoveVoice(h, name, "none")
           /\ UNCHANGED <<chunkVars, concVars, synthVars, cleanVars, llmVars>>
    \/ \E h \in Handles :
           Reopen(h) /\ UNCHANGED <<chunkVars, concVars, synthVars, cleanVars, llmVars>>

\* Two VoiceManager objects (two processes) open on the same fresh
\* directory, their calls one after the other, on a disk where nothing
\* fails.
SpecHandles == InitVoice /\ [][NextHandles]_vars

InitConc ==
    ChunkIdle /\ VoiceStart /\ ConcIdle /\ SynthIdle /\ CleanIdle
    /\ LlmIdle

NextConc == \E t \in Adders : AdderStep(t) /\ UNCHANGED <<chunkVars, synthVars, cleanVars, llmVars>>

\* test_concurrent_access: the add_voice threads on one VoiceManager.
SpecConc == InitConc /\ [][NextConc]_vars

\* The threads that write while the lock file and a reader are watched.
Writers == {1, 2}

NextLock ==
    \/ \E t \in Writers : AdderStep(t) /\ UNCHANGED <<chunkVars, synthVars, cleanVars, llmVars>>
    \/ LoadExists /\ UNCHANGED <<chunkVars, synthVars, cleanVars, llmVars>>
    \/ LoadRead /\ UNCHANGED <<chunkVars, synthVars, cleanVars, llmVars>>
    \/ LoadAgain /\ UNCHANGED <<chunkVars, synthVars, cleanVars, llmVars>>
    \/ ExternalAcquire /\ UNCHANGED <<chunkVars, synthVars, cleanVars, llmVars>>
    \/ ExternalRelease /\ UNCHANGED <<chunkVars, synthVars, cleanVars, llmVars>>

\* test_lock_contention: two writers, a caller of _load_metadata and a
\* holder of voices.json.lock.
SpecLock == InitConc /\ [][NextLock]_vars

InitSynth ==
    ChunkIdle /\ VoiceStart /\ ConcIdle /\ SynthInputs /\ CleanIdle
    /\ LlmIdle

NextSynth ==
    \/ Start /\ UNCHANGED <<chunkVars, voiceVars, concVars, cleanVars, llmVars>>
    \/ LoopHead /\ UNCHANGED <<chunkVars, voiceVars, concVars, cleanVars, llmVars>>
    \/ ReportProgress /\ UNCHANGED <<chunkVars, voiceVars, concVars, cleanVars, llmVars>>
    \/ CallGenerate /\ UNCHANGED <<chunkVars, voiceVars, concVars, cleanVars, llmVars>>
    \/ GenerateReturn /\ UNCHANGED <<chunkVars, voiceVars, concVars, cleanVars, llmVars>>
    \/ GenerateRaise /\ UNCHANGED <<chunkVars, voiceVars, concVars, cleanVars, llmVars>>
    \/ Export /\ UNCHANGED <<chunkVars, voiceVars, concVars, cleanVars, llmVars>>
    \/ ReturnOutPath /\ UNCHANGED <<chunkVars, voiceVars, concVars, cleanVars, llmVars>>

\* One call of text2audio, statement by statement.
SpecSynth == InitSynth /\ [][NextSynth]_vars

InitClean ==
    ChunkIdle /\ VoiceStart /\ ConcIdle /\ SynthIdle /\ CleanInputs
    /\ LlmIdle

NextClean ==
    CallCleanText
    /\ UNCHANGED <<chunkVars, voiceVars, concVars, synthVars, llmVars>>

\* clean_text on any text.
SpecClean == InitClean /\ [][NextClean]_vars

otherVars == <<chunkVars, voiceVars, concVars, synthVars, cleanVars>>

InitLlm ==
    ChunkIdle /\ VoiceStart /\ ConcIdle /\ SynthIdle /\ CleanIdle
    /\ LlmInputs

NextLlm ==
    \/ LlmLoad /\ UNCHANGED otherVars
    \/ LlmLoadRaise /\ UNCHANGED otherVars
    \/ LlmLoop /\ UNCHANGED otherVars
    \/ LlmCleanChunk /\ UNCHANGED otherVars
    \/ LlmCleanRaise /\ UNCHANGED otherVars
    \/ LlmReturn /\ UNCHANGED otherVars
    \/ LlmUnload /\ UNCHANGED otherVars

\* One call of clean_text_with_llm, statement by statement.
SpecLlm == InitLlm /\ [][NextLlm]_vars

----------------------------------------------------------------------------
(* Properties of chunk_text (checked under SpecChunk).                     *)

\* The stripped sentences that are not empty, in input order.
NonEmptySentences ==
    SelectSeq([i \in 1 .. Len(sentences) |-> strip(sentences[i])],
              LAMBDA s : s # <<>>)

\* The input text: its non-empty sentences separated by single spaces.
InputText == join(NonEmptySentences)

\* A token with no whitespace in it.
IsSingleWord(seg) == seg # <<>> /\ \A k \in 1 .. Len(seg) : ~IsSpace(seg[k])

RECURSIVE AllWords(_)
\* The space-separated words of the sentences of a list, in order.
AllWords(sents) ==
    IF sents = <<>> THEN <<>> ELSE split(Head(sents)) \o AllWords(Tail(sents))

\* C1: for max_length > 0 every returned segment has length <= max_length
\* unless it is a single word (no whitespace in it) longer than max_length.
C1_SegmentsBounded ==
    (cpc = "done" /\ max_length > 0) =>
        \A i \in 1 .. Len(chunks) :
            Len(chunks[i]) <= max_length \/ IsSingleWord(chunks[i])

\* C2: the segments joined with single spaces are the non-empty stripped
\* sentences joined with single spaces: nothing dropped, duplicated,
\* reordered or split inside a word.
C2_JoinPreservesText ==
    cpc = "done" => join(chunks) = InputText

\* C2 witness: two sentences, one split by words, gave three or more segments.
C2_Witness ==
    /\ cpc = "done"
    /\ Len(NonEmptySentences) >= 2
    /\ \E i \in 1 .. Len(NonEmptySentences) :
           Len(NonEmptySentences[i]) > max_length
    /\ Len(chunks) >= 3
    /\ max_length >= 2

\* C3: no returned segment is empty (stated for the max_length > 0 of the
\* contract; the claim covers every max_length).
C3_NoEmptySegment ==
    (cpc = "done" /\ max_length > 0) =>
        \A i \in 1 .. Len(chunks) : chunks[i] # <<>>

\* C4 as stated: chunk_text fails exactly when max_length <= 0.
C4_FailsIffNonPositive ==
    cpc = "done" => (raised <=> max_length <= 0)

\* C4 amended: chunk_text never fails; for max_length <= 0 it returns a
\* list, holding every space-separated word of the non-empty stripped
\* sentences as a segment of its own.
C4_NeverFails ==
    cpc = "done" =>
        /\ ~raised
        /\ max_length <= 0 => chunks = AllWords(NonEmptySentences)

\* C4 witness: a call with max_length <= 0 returned several segments.
C4_Witness ==
    cpc = "done" /\ max_length <= 0 /\ ~raised /\ Len(chunks) >= 2

\* C5 as stated: a text of length <= max_length comes back as exactly one
\* segment equal to the text (stated for the max_length > 0 of the contract).
C5_ShortTextOneSegment ==
    (cpc = "done" /\ max_length > 0 /\ Len(InputText) <= max_length) =>
        chunks = <<InputText>>

\* C5 amended: a non-empty text of length <= max_length comes back as
\* exactly one segment equal to the text, wherever its sentence boundaries
\* are.
C5_ShortNonEmptyTextOneSegment ==
    (cpc = "done" /\ InputText # <<>> /\ Len(InputText) <= max_length) =>
        chunks = <<InputText>>

\* C5 witness: two sentences that fit were returned as one segment.
C5_Witness ==
    /\ cpc = "done"
    /\ Len(NonEmptySentences) >= 2
    /\ Len(InputText) <= max_length
    /\ chunks = <<InputText>>

RECURSIVE GreedyFrom(_, _, _, _, _)
\* Greedy packing of items[i..] after the groups out and the open group
\* cur: an item joins cur when cur, a space and the item have at most
\* maxlen characters, and otherwise cur is closed and the item opens a group.
GreedyFrom(items, i, cur, out, maxlen) ==
    IF i > Len(items)
    THEN IF cur # <<>> THEN Append(out, cur) ELSE out
    ELSE IF cur = <<>>
    THEN GreedyFrom(items, i + 1, items[i], out, maxlen)
    ELSE IF Len(cur) + 1 + Len(items[i]) <= maxlen
    THEN GreedyFrom(items, i + 1, cur \o <<SP>> \o items[i], out, maxlen)
    ELSE GreedyFrom(items, i + 1, items[i], Append(out, cur), maxlen)

GreedyGroups(items, maxlen) == GreedyFrom(items, 1, <<>>, <<>>, maxlen)

\* Every non-empty sentence has at most max_length characters.
AllSentencesFit ==
    \A k \in 1 .. Len(NonEmptySentences) :
        Len(NonEmptySentences[k]) <= max_length

\* C23: when every sentence fits, the segments are the greedy packing of
\* the sentences: a sentence joins the current segment exactly when
\* len(current) + 1 + len(sentence) <= max_length, otherwise the current
\* segment is emitted as it is and the sentence starts the next one; two
\* sentences that fit each but not together come out as themselves.
C23_GreedySentencePacking ==
    (cpc = "done" /\ AllSentencesFit) =>
        /\ ~raised
        /\ chunks = GreedyGroups(NonEmptySentences, max_length)
        /\ (/\ Len(NonEmptySentences) = 2
            /\ Len(NonEmptySentences[1]) + 1 + Len(NonEmptySentences[2])
                   > max_length)
               => chunks = NonEmptySentences

\* Two sentences that fit each but not together came out as two segments.
C23_Witness ==
    /\ cpc = "done"
    /\ AllSentencesFit
    /\ Len(NonEmptySentences) = 2
    /\ Len(NonEmptySentences[1]) + 1 + Len(NonEmptySentences[2]) > max_length
    /\ chunks = NonEmptySentences

\* C24: a single sentence longer than max_length, made of words separated
\* by single spaces, comes out as the greedy packing of its words, a group
\* of exactly max_length characters being allowed.
C24_GreedyWordPacking ==
    (/\ cpc = "done"
     /\ max_length > 0
     /\ Len(NonEmptySentences) = 1
     /\ Len(NonEmptySentences[1]) > max_length
     /\ \A k \in 1 .. Len(split(NonEmptySentences[1])) :
            IsSingleWord(split(NonEmptySentences[1])[k]))
        => chunks = GreedyGroups(split(NonEmptySentences[1]), max_length)

----------------------------------------------------------------------------
(* Properties of the registry used through one handle (SpecVoice).         *)

\* How many times x occurs in the list.
Count(list, x) == Cardinality({i \in 1 .. Len(list) : list[i] = x})

\* The last call was op, and it returned success.
Succeeded(op) == lastCall.op = op /\ lastCall.ok

\* C6: right after a successful add_voice(name), get_voice_list holds name
\* exactly once and get_voice_path(name) is a path that exists on disk.
C6_AddedVoiceListedAndResolvable ==
    Succeeded("add") =>
        /\ Count(get_voice_list(lastCall.h), lastCall.name) = 1
        /\ get_voice_path(lastCall.h, lastCall.name) # None
        /\ get_voice_path(lastCall.h, lastCall.name) \in files

\* C7: right after a successful remove_voice(name), get_voice_list does not
\* hold name, voice_exists(name) is false and the directory of the profile
\* no longer exists.
C7_RemovedVoiceGone ==
    Succeeded("remove") =>
        /\ Count(get_voice_list(lastCall.h), lastCall.name) = 0
        /\ ~voice_exists(lastCall.h, lastCall.name)
        /\ replace(lastCall.name) \notin dirs

\* C11: add_voice returns False when the name is empty, when the name is
\* already registered, or when the extension of the upload is neither wav
\* nor mp3; and an add_voice of a registered name leaves the entry of that
\* name, the files on disk and the index file as they were.
C11_RejectedAddChangesNothing ==
    [][lastCall'.op = "add" =>
         LET name == lastCall'.name
         IN  /\ (name = <<>> \/ name \in DOMAIN metadata[1]) => ~lastCall'.ok
             /\ lastCall'.ok =>
                    \A audio_name \in {u \in Uploads : Extension(u) = ""} :
                        \A fault \in {"none", "mkdir"} :
                            ~AddVoice(1, name, audio_name, "ok", fault)
             /\ name \in DOMAIN metadata[1] =>
                    /\ name \in DOMAIN metadata'[1]
                    /\ metadata'[1][name] = metadata[1][name]
                    /\ files' = files
                    /\ indexFile' = indexFile
      ]_vars

\* An add_voice of a registered name has just been rejected: the name is in
\* the dict and in the saved index, its audio file is there.
C11_Witness ==
    /\ lastCall.op = "add"
    /\ ~lastCall.ok
    /\ lastCall.name \in DOMAIN metadata[1]
    /\ indexFile = JsonFile(metadata[1])
    /\ metadata[1][lastCall.name].path \in files

\* C12: whenever add_voice or remove_voice returns False, the index file and
\* the set of profile directories are what they were before the call.
C12_FailedCallLeavesDiskUnchanged ==
    [][(lastCall'.op \in {"add", "remove"} /\ ~lastCall'.ok) =>
          (indexFile' = indexFile /\ dirs' = dirs)
      ]_vars

\* C13: get_voice_list returns "Model default" first and then all the
\* registered names, each once, in ascending order.
C13_ListIsDefaultThenSortedNames ==
    LET list == get_voice_list(1)
        rest == Tail(list)
    IN  /\ Head(list) = ModelDefault
        /\ {rest[i] : i \in 1 .. Len(rest)} = DOMAIN metadata[1]
        /\ Len(rest) = Cardinality(DOMAIN metadata[1])
        /\ \A i \in 1 .. Len(rest) - 1 : StrLess(rest[i], rest[i + 1])

\* Three names are registered.
C13_Witness ==
    /\ Cardinality(DOMAIN metadata[1]) = 3
    /\ Len(get_voice_list(1)) = 4

\* C14: "Model default" is never a key of the index, in memory or on disk,
\* and get_voice_list holds it exactly once.
C14_DefaultNeverStored ==
    /\ ModelDefault \notin DOMAIN metadata[1]
    /\ ModelDefault \notin DOMAIN indexFile.data
    /\ Count(get_voice_list(1), ModelDefault) = 1

\* C15: get_voice_path(name) returns None when name is "Model default", when
\* name is not registered, or when the registered file is not on disk;
\* otherwise it returns the registered path; it returns (never raises) and
\* leaves the dict, the index file, the directories and the files alone.
C15_PathResolution ==
    [][lastCall'.op = "path" =>
         LET name == lastCall'.name
         IN  /\ lastCall'.ok
             /\ lastCall'.value =
                    IF \/ name = ModelDefault
                       \/ name \notin DOMAIN metadata[1]
                       \/ metadata[1][name].path \notin files
                    THEN None
                    ELSE metadata[1][name].path
             /\ UNCHANGED <<diskVars, metadata>>
      ]_vars

\* get_voice_path has just returned None for a registered name whose file
\* is no longer on disk.
C15_Witness ==
    /\ lastCall.op = "path"
    /\ lastCall.name # ModelDefault
    /\ lastCall.name \in DOMAIN metadata[1]
    /\ metadata[1][lastCall.name].path \notin files
    /\ lastCall.value = None

\* C16: every entry of the index, in memory and on disk, has a directory
\* that exists and that holds the file the entry names.
C16_EntriesHaveDirectoryAndFile ==
    \A d \in {metadata[1], indexFile.data} :
        \A n \in DOMAIN d :
            /\ d[n].dir \in dirs
            /\ d[n].path \in files
            /\ d[n].path[1] = d[n].dir

\* The names get_voice_list reports besides the reserved first element.
ListedNames(h) ==
    {Tail(get_voice_list(h))[k] : k \in 1 .. Len(get_voice_list(h)) - 1}

\* The names of the index as persisted in voices.json.
PersistedNames == DOMAIN LoadFrom(indexFile)

\* C26: any two distinct registered names have distinct directories.
C26_DistinctNamesDistinctDirectories ==
    \A n1 \in DOMAIN metadata[1], n2 \in DOMAIN metadata[1] :
        n1 # n2 => metadata[1][n1].dir # metadata[1][n2].dir

\* C27: when two handles on the same directory each add a distinct name
\* successfully, one call right after the other, the persisted index holds
\* both names.
C27_NoLostUpdateBetweenHandles ==
    [][(/\ lastCall.op = "add" /\ lastCall.ok
        /\ lastCall'.op = "add" /\ lastCall'.ok
        /\ lastCall'.h # lastCall.h
        /\ lastCall'.name # lastCall.name)
          => {lastCall.name, lastCall'.name} \subseteq DOMAIN LoadFrom(indexFile')
      ]_vars

\* C28: after every add_voice or remove_voice call, returned True or False,
\* the names voice_exists and get_voice_list report are the names of the
\* persisted index.
C28_HandleAgreesWithPersistedIndex ==
    lastCall.op \in {"add", "remove"} =>
        /\ DOMAIN metadata[lastCall.h] = PersistedNames
        /\ \A name \in Names :
               voice_exists(lastCall.h, name) <=> name \in PersistedNames
        /\ ListedNames(lastCall.h) = PersistedNames

----------------------------------------------------------------------------
(* Properties of concurrent callers (SpecConc, SpecLock).                  *)

\* C8: under every interleaving of the concurrent add_voice calls with
\* distinct new names, every call returns success and the final
\* get_voice_list holds exactly those names and "Model default".
C8_ConcurrentAddsAllSucceed ==
    /\ \A t \in Adders : pc[t] = "done" => ret[t]
    /\ (\A t \in Adders : pc[t] = "done") =>
           get_voice_list(1) =
               <<ModelDefault>> \o sorted({ThreadName(t) : t \in Adders})

\* C9: every operation takes the lock file before it touches the index:
\* while another party holds voices.json.lock, _load_metadata does not
\* proceed and no writer opens, writes or closes the index.
C9_NoIndexAccessWhileLockHeld ==
    [][lockHeld =>
          /\ (rpc \in {"start", "read"} => rpc' = rpc)
          /\ \A t \in Writers :
                 pc[t] \in {"open", "iter", "dump", "close"} => pc'[t] = pc[t]
      ]_vars

\* C10: a concurrent reader never observes a partially written index: what
\* it reads is no file yet or a complete JSON document, never an empty or
\* truncated one.
C10_ReaderSeesWholeIndex ==
    readerSaw \in {"nothing", "absent", "json"}

----------------------------------------------------------------------------
(* Properties of text2audio (SpecSynth).                                   *)

C18_TrackDuration ==
    (tpc = "returned" /\ Len(lines) >= 1) =>
        /\ sink.exists
        /\ sink.duration = Sum(lines) + Len(lines) * SilenceMs
        /\ (lines = <<1000, 1000, 1000>> /\ SilenceMs = 500)
               => sink.duration = 4500

\* The run over three segments of 1000 ms has returned.
C18_Witness ==
    /\ tpc = "returned"
    /\ lines = <<1000, 1000, 1000>>
    /\ sink.duration = 4500

\* C19: the values passed to the progress callback never decrease, each is
\* greater than 0 and at most 1, and when a run over at least one segment
\* returns, the last value passed is exactly 1.
C19_ProgressMonotoneToOne ==
    /\ \A k \in 1 .. Len(reported) :
           /\ 0 < reported[k].num
           /\ reported[k].num <= reported[k].den
    /\ \A k \in 1 .. Len(reported) - 1 :
           FractionLeq(reported[k], reported[k + 1])
    /\ (tpc = "returned" /\ progress_callback /\ Len(lines) >= 1) =>
           /\ reported # <<>>
           /\ reported[Len(reported)].num = reported[Len(reported)].den

\* A run with a callback over several segments has returned.
C19_Witness ==
    /\ tpc = "returned"
    /\ progress_callback
    /\ Len(reported) >= 2

\* C20: when tts.generate raises on a segment, the run raises and out_path
\* holds no track of the segments generated before.
C20_NoPartialTrackAfterFailure ==
    tpc = "raised" => ~sink.exists

\* C21: a run over no segment either raises or leaves an empty track of
\* length 0 at out_path; it does not return with nothing at out_path.
C21_EmptyRunRaisesOrWritesEmptyTrack ==
    (Len(lines) = 0 /\ tpc = "returned") =>
        (sink.exists /\ sink.duration = 0)

\* C25: a value (i + 1) / len(lines) is passed to the callback only after
\* segment i has been generated and is part of the combined track; the
\* value 1 is not passed before the last segment has been generated.
C25_ProgressAfterSegmentFolded ==
    \A k \in 1 .. Len(reported) :
        /\ reported[k].num <= Len(segments)
        /\ reported[k].num <= sink.parts

----------------------------------------------------------------------------
(* Properties of clean_text (SpecClean).                                   *)

RECURSIVE LinesFrom(_, _, _)
\* The lines of s from position i on, cur being the line read so far.
LinesFrom(s, i, cur) ==
    IF i > Len(s) THEN <<cur>>
    ELSE IF s[i] = NL THEN <<cur>> \o LinesFrom(s, i + 1, <<>>)
    ELSE LinesFrom(s, i + 1, Append(cur, s[i]))

\* s.split('\n')
Lines(s) == LinesFrom(s, 1, <<>>)

\* A line that consists only of digits.
DigitsOnly(line) ==
    line # <<>> /\ \A k \in 1 .. Len(line) : line[k] \in Digits

\* C22: every line of the input that consists only of digits is still a
\* line of the output, as many times as it is in the input; a heading
\* followed by three lines of digits comes back unchanged.
C22_DigitLinesKept ==
    xpc = "done" =>
        /\ \A k \in 1 .. Len(Lines(raw_text)) :
               DigitsOnly(Lines(raw_text)[k]) =>
                   Count(Lines(cleaned_text), Lines(raw_text)[k])
                       >= Count(Lines(raw_text), Lines(raw_text)[k])
        /\ raw_text = <<"a", NL, "1", NL, "1", NL, "1">>
               => cleaned_text = raw_text

----------------------------------------------------------------------------
(* Properties of clean_text_with_llm (SpecLlm).                            *)

\* C29: when the call is over the cleaner is unloaded; a call on no chunks
\* does not end in the error of an unbound name; a call that returns has
\* passed every chunk to clean_chunk, once each, in order, and returns the
\* answers, as many as chunks, joined by single spaces.
C29_EveryChunkCleanedOnce ==
    lpc = "done" =>
        /\ ~is_loaded
        /\ llm_chunks = <<>> =>
               ~(/\ llm_result.kind = "raised"
                 /\ llm_result.value = "UnboundLocalError")
        /\ llm_result.kind = "returned" =>
               /\ cleaner_calls = llm_chunks
               /\ Len(cleaned_chunks) = Len(llm_chunks)
               /\ llm_result.value =
                      join([k \in 1 .. Len(llm_chunks)
                                |-> Response(llm_chunks[k])])

====
